---- MODULE Spec2Model ----
(***************************************************************************)
(* A model of libssh's public key infrastructure layer (src/src/pki.c):    *)
(* the ssh_key store, the public key blob codec, the legacy-record          *)
(* conversions and the session signing operation.                          *)
(*                                                                         *)
(* Bytes are naturals in 0..255, C strings and wire strings are sequences  *)
(* of bytes.  A pointer to an ssh_string is a record [ok, data]; ok = FALSE *)
(* is the NULL pointer.  Key and backend handle pointers are identifiers,  *)
(* 0 is NULL.                                                              *)
(***************************************************************************)
EXTENDS Integers, Sequences, FiniteSets, TLC

VARIABLES
    keys,       \* the ssh_key_struct objects ever allocated, by address
    handles,    \* the backend objects (DSA* / RSA*) ever allocated, by address
    legacy,     \* the ssh_public_key / ssh_private_key records handed out
    refs,       \* the ssh_key pointers the caller holds
    last,       \* what the last call did: its inputs, result and call log
    fault       \* "none", or how the process has gone wrong

vars == <<keys, handles, legacy, refs, last, fault>>

(***************************************************************************)
(* Bounds of the model.                                                    *)
(***************************************************************************)
MaxKeys == 1
MaxHandles == 1
MaxLegacy == 1
NumScalars == 2

KeyIds == 1..MaxKeys
HandleIds == 1..MaxHandles
NULL == 0

SSH_OK == "SSH_OK"
SSH_ERROR == "SSH_ERROR"

KeyTypes == {"SSH_KEYTYPE_UNKNOWN", "SSH_KEYTYPE_DSS", "SSH_KEYTYPE_RSA",
             "SSH_KEYTYPE_RSA1", "SSH_KEYTYPE_ECDSA"}

SSH_KEY_FLAG_EMPTY == {}
SSH_KEY_FLAG_PUBLIC == {"PUBLIC"}
SSH_KEY_FLAG_PRIVATE == {"PRIVATE"}

(***************************************************************************)
(* Character data.  Chars(s) is the byte sequence of the C string literal  *)
(* s, for the literals pki.c compares against and returns.                 *)
(***************************************************************************)
Chars(s) ==
    CASE s = "rsa"      -> <<114, 115, 97>>
      [] s = "rsa1"     -> <<114, 115, 97, 49>>
      [] s = "dsa"      -> <<100, 115, 97>>
      [] s = "ssh-rsa"  -> <<115, 115, 104, 45, 114, 115, 97>>
      [] s = "ssh-rsa1" -> <<115, 115, 104, 45, 114, 115, 97, 49>>
      [] s = "ssh-dss"  -> <<115, 115, 104, 45, 100, 115, 115>>
      [] s = "ssh-ecdsa" -> <<115, 115, 104, 45, 101, 99, 100, 115, 97>>
      [] s = "ecdsa"    -> <<101, 99, 100, 115, 97>>
      [] s = "ecdsa-sha2-nistp256" ->
            <<101, 99, 100, 115, 97, 45, 115, 104, 97, 50, 45,
              110, 105, 115, 116, 112, 50, 53, 54>>
      [] s = "ecdsa-sha2-nistp384" ->
            <<101, 99, 100, 115, 97, 45, 115, 104, 97, 50, 45,
              110, 105, 115, 116, 112, 51, 56, 52>>
      [] s = "ecdsa-sha2-nistp521" ->
            <<101, 99, 100, 115, 97, 45, 115, 104, 97, 50, 45,
              110, 105, 115, 116, 112, 53, 50, 49>>
      [] s = "ssh-ed"   -> <<115, 115, 104, 45, 101, 100>>
      [] s = "ssh"      -> <<115, 115, 104>>
      [] s = ""         -> <<>>

\* The bytes of a C string up to, and without, its first NUL: what strcmp sees.
RECURSIVE CStr(_)
CStr(bytes) ==
    IF bytes = <<>> \/ Head(bytes) = 0 THEN <<>>
    ELSE <<Head(bytes)>> \o CStr(Tail(bytes))

\* strcmp(name, literal) == 0
StrEq(name, literal) == CStr(name) = Chars(literal)

(***************************************************************************)
(* ssh_key_type_to_char, pki.c:154-170.  "NULL" is the NULL pointer.       *)
(***************************************************************************)
ssh_key_type_to_char(type) ==
    CASE type = "SSH_KEYTYPE_DSS"     -> "ssh-dss"
      [] type = "SSH_KEYTYPE_RSA"     -> "ssh-rsa"
      [] type = "SSH_KEYTYPE_RSA1"    -> "ssh-rsa1"
      [] type = "SSH_KEYTYPE_ECDSA"   -> "ssh-ecdsa"
      [] type = "SSH_KEYTYPE_UNKNOWN" -> "NULL"
      [] OTHER                        -> "NULL"

(***************************************************************************)
(* ssh_key_type_from_name, pki.c:179-200.  The ECDSA branch has an empty   *)
(* body and falls through to the final return.                             *)
(***************************************************************************)
ssh_key_type_from_name_rsa1_as_rsa(name) ==
    IF StrEq(name, "rsa1") THEN "SSH_KEYTYPE_RSA1"
    ELSE IF StrEq(name, "rsa") THEN "SSH_KEYTYPE_RSA"
    ELSE IF StrEq(name, "dsa") THEN "SSH_KEYTYPE_DSS"
    ELSE IF StrEq(name, "ssh-rsa1") THEN "SSH_KEYTYPE_RSA"
    ELSE IF StrEq(name, "ssh-rsa") THEN "SSH_KEYTYPE_RSA"
    ELSE IF StrEq(name, "ssh-dss") THEN "SSH_KEYTYPE_DSS"
    ELSE "SSH_KEYTYPE_UNKNOWN"

ssh_key_type_from_name(name) ==
    IF StrEq(name, "rsa1") THEN "SSH_KEYTYPE_RSA1"
    ELSE IF StrEq(name, "rsa") THEN "SSH_KEYTYPE_RSA"
    ELSE IF StrEq(name, "dsa") THEN "SSH_KEYTYPE_DSS"
    ELSE IF StrEq(name, "ssh-rsa1") THEN "SSH_KEYTYPE_RSA1"
    ELSE IF StrEq(name, "ssh-rsa") THEN "SSH_KEYTYPE_RSA"
    ELSE IF StrEq(name, "ssh-dss") THEN "SSH_KEYTYPE_DSS"
    ELSE IF \/ StrEq(name, "ssh-ecdsa")
            \/ StrEq(name, "ecdsa")
            \/ StrEq(name, "ecdsa-sha2-nistp256")
            \/ StrEq(name, "ecdsa-sha2-nistp384")
            \/ StrEq(name, "ecdsa-sha2-nistp521")
         THEN "SSH_KEYTYPE_UNKNOWN"
    ELSE "SSH_KEYTYPE_UNKNOWN"

(***************************************************************************)
(* Wire strings and buffers.  A buffer is [data, pos]; the unread rest is  *)
(* data[pos+1 .. Len(data)].                                               *)
(***************************************************************************)
NULLSTR == [ok |-> FALSE, data |-> <<>>]
Str(bytes) == [ok |-> TRUE, data |-> bytes]

\* The 4-byte big-endian encoding of n.
U32(n) == << (n \div 16777216) % 256, (n \div 65536) % 256,
             (n \div 256) % 256, n % 256 >>

\* The value of 4 big-endian bytes.
FromU32(b) == b[1] * 16777216 + b[2] * 65536 + b[3] * 256 + b[4]

\* A wire string: length prefix, then the bytes.
WireString(bytes) == U32(Len(bytes)) \o bytes

Buffer(bytes) == [data |-> bytes, pos |-> 0]
buffer_get_rest_len(buffer) == Len(buffer.data) - buffer.pos
buffer_get_rest(buffer) == SubSeq(buffer.data, buffer.pos + 1, Len(buffer.data))

\* buffer_get_ssh_string: [str, buffer] after reading one wire string; str is
\* NULL when fewer than 4 bytes remain or the length overruns the rest.
buffer_get_ssh_string(buffer) ==
    IF buffer_get_rest_len(buffer) < 4
    THEN [str |-> NULLSTR, buffer |-> buffer]
    ELSE LET n == FromU32(SubSeq(buffer.data, buffer.pos + 1, buffer.pos + 4))
             b == [buffer EXCEPT !.pos = @ + 4]
         IN  IF n > buffer_get_rest_len(b)
             THEN [str |-> NULLSTR, buffer |-> b]
             ELSE [str |-> Str(SubSeq(b.data, b.pos + 1, b.pos + n)),
                   buffer |-> [b EXCEPT !.pos = @ + n]]

(***************************************************************************)
(* Big numbers.  make_string_bn reads a wire string as an unsigned         *)
(* big-endian number; make_bignum_string writes the shortest big-endian    *)
(* form, with a leading zero byte when the top bit is set.                 *)
(***************************************************************************)
RECURSIVE BinToBn(_)
BinToBn(bytes) ==
    IF bytes = <<>> THEN 0
    ELSE BinToBn(SubSeq(bytes, 1, Len(bytes) - 1)) * 256 + bytes[Len(bytes)]

make_string_bn(s) == IF s.ok THEN BinToBn(s.data) ELSE 0

RECURSIVE BnBytes(_)
BnBytes(v) == IF v = 0 THEN <<>> ELSE BnBytes(v \div 256) \o <<v % 256>>

make_bignum_string(v) ==
    LET b == BnBytes(v)
    IN  IF b # <<>> /\ b[1] >= 128 THEN <<0>> \o b ELSE b

(***************************************************************************)
(* The call log of one operation: a sequence of events [ev, f, ok].        *)
(*   get    f : buffer_get_ssh_string for field f, ok = returned non-NULL  *)
(*   burn   f : ssh_string_burn on the string of field f                   *)
(*   free   f : ssh_string_free on the string of field f                   *)
(*   build  k : the key construction primitive, ok = no argument was NULL  *)
(***************************************************************************)
Ev(e, f, ok) == [ev |-> e, f |-> f, ok |-> ok]

\* ssh_string_burn(s); ssh_string_free(s);  Both do nothing for s = NULL.
BurnFree_NoBurn(log, f, s) ==
    IF ~s.ok THEN log
    ELSE log \o <<Ev("free", f, TRUE)>>

BurnFree(log, f, s) ==
    IF ~s.ok THEN log
    ELSE log \o <<Ev("burn", f, TRUE), Ev("free", f, TRUE)>>

(***************************************************************************)
(* The key construction primitives.  Each yields the set of outcomes the   *)
(* backend can produce: rc, the scalars stored in the new backend object,  *)
(* and whether the call brought the process down.  With every argument     *)
(* present the backend builds the object or reports an error.  A NULL      *)
(* argument is outside the primitive's contract: it may crash, report an   *)
(* error, or read the missing string as empty.                             *)
(***************************************************************************)
BuildOutcomes(args) ==
    LET nums == [i \in DOMAIN args |-> make_string_bn(args[i])]
        good == { [rc |-> SSH_OK, nums |-> nums, crash |-> FALSE],
                  [rc |-> SSH_ERROR, nums |-> <<>>, crash |-> FALSE] }
    IN  IF \A i \in DOMAIN args : args[i].ok
        THEN good
        ELSE good \cup { [rc |-> SSH_ERROR, nums |-> <<>>, crash |-> TRUE] }

pki_pubkey_build_dss(p, q, g, pubkey) == BuildOutcomes(<<p, q, g, pubkey>>)
pki_pubkey_build_rsa(e, n) == BuildOutcomes(<<e, n>>)

AllPresent(args) == \A i \in DOMAIN args : args[i].ok

(***************************************************************************)
(* The switch of pki_import_pubkey_buffer, pki.c:408-503: the set of       *)
(* results [rc, log, kind, nums, crash] of reading the fields of a key of  *)
(* the given type from the buffer and building the backend object.         *)
(* rc = SSH_ERROR stands for "goto fail".                                  *)
(***************************************************************************)
ImportResult(rc, log, kind, nums, crash) ==
    [rc |-> rc, log |-> log, kind |-> kind, nums |-> nums, crash |-> crash]

GotoFail(log) == ImportResult(SSH_ERROR, log, "none", <<>>, FALSE)

\* pki.c:448-464: build, burn and free the four strings, test rc.
ImportDssBuild(log, p, q, g, pubkey) ==
    { IF b.crash
      THEN ImportResult(SSH_ERROR,
                        Append(log, Ev("build", "dss", AllPresent(<<p, q, g, pubkey>>))),
                        "none", <<>>, TRUE)
      ELSE LET l0 == Append(log, Ev("build", "dss", AllPresent(<<p, q, g, pubkey>>)))
               l1 == BurnFree(l0, "p", p)
               l2 == BurnFree(l1, "q", q)
               l3 == BurnFree(l2, "g", g)
               l4 == BurnFree(l3, "pubkey", pubkey)
           IN  IF b.rc = SSH_ERROR THEN GotoFail(l4)
               ELSE ImportResult(SSH_OK, l4, "dsa", b.nums, FALSE)
      : b \in pki_pubkey_build_dss(p, q, g, pubkey) }

\* pki.c:409-466
ImportDss(buffer) ==
    LET r1 == buffer_get_ssh_string(buffer)
        p  == r1.str
        l1 == <<Ev("get", "p", p.ok)>>
    IN  IF ~p.ok THEN {GotoFail(l1)}
        ELSE
    LET r2 == buffer_get_ssh_string(r1.buffer)
        q  == r2.str
        l2 == Append(l1, Ev("get", "q", q.ok))
    IN  IF ~q.ok THEN {GotoFail(BurnFree(l2, "p", p))}
        ELSE
    LET r3 == buffer_get_ssh_string(r2.buffer)
        g  == r3.str
        l3 == Append(l2, Ev("get", "g", g.ok))
    IN  IF ~g.ok THEN {GotoFail(BurnFree(BurnFree(l3, "p", p), "q", q))}
        ELSE
    LET r4 == buffer_get_ssh_string(r3.buffer)
        pubkey == r4.str
        l4 == Append(l3, Ev("get", "pubkey", pubkey.ok))
    IN  \* pki.c:437 tests g, not pubkey
        IF ~g.ok
        THEN {GotoFail(BurnFree(BurnFree(BurnFree(l4, "p", p), "q", q), "g", g))}
        ELSE ImportDssBuild(l4, p, q, g, pubkey)

\* pki.c:467-498
ImportRsa(buffer) ==
    LET r1 == buffer_get_ssh_string(buffer)
        e  == r1.str
        l1 == <<Ev("get", "e", e.ok)>>
    IN  IF ~e.ok THEN {GotoFail(l1)}
        ELSE
    LET r2 == buffer_get_ssh_string(r1.buffer)
        n  == r2.str
        l2 == Append(l1, Ev("get", "n", n.ok))
    IN  IF ~n.ok THEN {GotoFail(BurnFree(l2, "e", e))}
        ELSE
    { IF b.crash
      THEN ImportResult(SSH_ERROR,
                        Append(l2, Ev("build", "rsa", AllPresent(<<e, n>>))),
                        "none", <<>>, TRUE)
      ELSE LET l3 == Append(l2, Ev("build", "rsa", AllPresent(<<e, n>>)))
               l4 == BurnFree(l3, "e", e)
               l5 == BurnFree(l4, "n", n)
           IN  IF b.rc = SSH_ERROR THEN GotoFail(l5)
               ELSE ImportResult(SSH_OK, l5, "rsa", b.nums, FALSE)
      : b \in pki_pubkey_build_rsa(e, n) }

ImportSwitch(buffer, type) ==
    CASE type = "SSH_KEYTYPE_DSS" -> ImportDss(buffer)
      [] type \in {"SSH_KEYTYPE_RSA", "SSH_KEYTYPE_RSA1"} -> ImportRsa(buffer)
      [] OTHER -> {GotoFail(<<>>)}

(***************************************************************************)
(* The heap.  H = [keys, handles, fault] is threaded through the code that *)
(* changes it.                                                             *)
(***************************************************************************)
NoKey == [mem |-> "unalloc", flags |-> {}, type |-> "SSH_KEYTYPE_UNKNOWN",
          type_c |-> "NULL", dsa |-> NULL, rsa |-> NULL, freedBy |-> "none",
          releases |-> 0]
NoHandle == [st |-> "unused", kind |-> "none", nums |-> <<>>, frees |-> 0]

Heap == [keys |-> keys, handles |-> handles, fault |-> fault]

FreshKey(H) ==
    IF \E k \in KeyIds : H.keys[k].mem = "unalloc"
    THEN CHOOSE k \in KeyIds : /\ H.keys[k].mem = "unalloc"
                               /\ \A j \in KeyIds : H.keys[j].mem = "unalloc" => k <= j
    ELSE NULL

FreshHandle(H) ==
    IF \E h \in HandleIds : H.handles[h].st = "unused"
    THEN CHOOSE h \in HandleIds : /\ H.handles[h].st = "unused"
                                  /\ \A j \in HandleIds : H.handles[j].st = "unused" => h <= j
    ELSE NULL

\* ssh_key_new, pki.c:84-91, given the address malloc returned (not NULL).
ssh_key_new(H, k) ==
    [H EXCEPT !.keys[k] = [NoKey EXCEPT !.mem = "live"]]

\* DSA_free / RSA_free / gcry_sexp_release on a backend object.
BackendFree(H, h) ==
    IF H.handles[h].st = "live"
    THEN [H EXCEPT !.handles[h].st = "destroyed", !.handles[h].frees = @ + 1]
    ELSE [H EXCEPT !.handles[h].frees = @ + 1, !.fault = "double_free"]

\* ssh_key_clean, pki.c:106-121.
ssh_key_clean_keep_handles(H, key) ==
    IF key = NULL THEN H
    ELSE IF H.keys[key].mem # "live" THEN [H EXCEPT !.fault = "use_after_free"]
    ELSE LET K  == H.keys[key]
             H1 == IF K.dsa # NULL THEN BackendFree(H, K.dsa) ELSE H
             H2 == IF K.rsa # NULL THEN BackendFree(H1, K.rsa) ELSE H1
         IN  [H2 EXCEPT !.keys[key].flags = SSH_KEY_FLAG_EMPTY,
                        !.keys[key].type = "SSH_KEYTYPE_UNKNOWN",
                        !.keys[key].type_c = "NULL"]

ssh_key_clean(H, key) ==
    IF key = NULL THEN H
    ELSE IF H.keys[key].mem # "live" THEN [H EXCEPT !.fault = "use_after_free"]
    ELSE LET K  == H.keys[key]
             H1 == IF K.dsa # NULL THEN BackendFree(H, K.dsa) ELSE H
             H2 == IF K.rsa # NULL THEN BackendFree(H1, K.rsa) ELSE H1
         IN  [H2 EXCEPT !.keys[key].flags = SSH_KEY_FLAG_EMPTY,
                        !.keys[key].type = "SSH_KEYTYPE_UNKNOWN",
                        !.keys[key].type_c = "NULL",
                        !.keys[key].dsa = NULL,
                        !.keys[key].rsa = NULL]

\* ssh_key_free, pki.c:127-132; `by` records the function that called it.
ssh_key_free(H, key, by) ==
    IF key = NULL THEN H
    ELSE LET H1 == ssh_key_clean(H, key)
         IN  IF H.keys[key].mem # "live"
             THEN H1
             ELSE [H1 EXCEPT !.keys[key].mem = "freed", !.keys[key].freedBy = by]

\* ssh_key_is_public, pki.c:209-215 and ssh_key_is_private, pki.c:224-230,
\* on a key the caller may read.
ssh_key_is_public(H, k) ==
    IF k = NULL THEN FALSE
    ELSE (H.keys[k].flags \cap SSH_KEY_FLAG_PUBLIC) # {}

ssh_key_is_private_any_flag(H, k) ==
    IF k = NULL THEN FALSE
    ELSE H.keys[k].flags # {}

ssh_key_is_private(H, k) ==
    IF k = NULL THEN FALSE
    ELSE (H.keys[k].flags \cap SSH_KEY_FLAG_PRIVATE) # {}

\* ssh_key_type, pki.c:140-145.
ssh_key_type(H, k) ==
    IF k = NULL THEN "SSH_KEYTYPE_UNKNOWN" ELSE H.keys[k].type

(***************************************************************************)
(* The record of the last call.                                            *)
(***************************************************************************)
\* unsigned char hash[SHA_DIGEST_LEN + 1] = {0}: the byte hash[0] and, from
\* hash + 1, the digest, here the name of the function and the bytes it was
\* computed from.
NoHash == [hash0 |-> 0, alg |-> "none", of |-> <<>>]

NoLast == [op |-> "none", rc |-> "none", key |-> NULL, live |-> FALSE, input |-> <<>>,
           tag |-> <<>>, hint |-> "none", type |-> "none", out |-> NULL, log |-> <<>>,
           output |-> NULLSTR, alloc |-> FALSE, hashed |-> <<>>, signed |-> NoHash,
           size |-> 0, touched |-> {}, session_id |-> <<>>,
           sigbuf_in |-> Buffer(<<>>), sigbuf |-> Buffer(<<>>)]

(***************************************************************************)
(* Inputs.  Valid public keys carry positive scalars; blobs are their      *)
(* encodings; those of the sample keys are also cut at every offset and    *)
(* given every tag of the name table.                                      *)
(***************************************************************************)
ScalarChoices == <<1, 128, 256, 65535>>
Scalars == { ScalarChoices[i] : i \in 1..NumScalars }

PubKey(type, nums) ==
    [type |-> type, type_c |-> ssh_key_type_to_char(type), nums |-> nums]

ValidPubKeys ==
    { PubKey(t, <<e, n>>) :
        t \in {"SSH_KEYTYPE_RSA", "SSH_KEYTYPE_RSA1"}, e \in Scalars, n \in Scalars }
    \cup
    { PubKey("SSH_KEYTYPE_DSS", <<p, q, ScalarChoices[3], y>>) :
        p \in Scalars, q \in {ScalarChoices[2]}, y \in Scalars }

RECURSIVE WireFields(_)
WireFields(nums) ==
    IF nums = <<>> THEN <<>>
    ELSE WireString(make_bignum_string(Head(nums))) \o WireFields(Tail(nums))

\* pki_publickey_to_blob: the canonical tag, then the fields; NULL for a key
\* whose type has no public export.
pki_publickey_to_blob(k) ==
    IF k.type \in {"SSH_KEYTYPE_DSS", "SSH_KEYTYPE_RSA", "SSH_KEYTYPE_RSA1"}
    THEN Str(WireString(Chars(k.type_c)) \o WireFields(k.nums))
    ELSE NULLSTR

Truncations(b) == { SubSeq(b, 1, i) : i \in 0..Len(b) }

AliasNames == {"rsa", "ssh-rsa", "dsa", "ssh-dss", "rsa1", "ssh-rsa1"}
EcdsaNames == {"ssh-ecdsa", "ecdsa", "ecdsa-sha2-nistp256",
               "ecdsa-sha2-nistp384", "ecdsa-sha2-nistp521"}
OtherNames == {"ssh-ed", "ssh", ""}
TagNames == AliasNames \cup EcdsaNames \cup OtherNames

SampleKeys ==
    { PubKey("SSH_KEYTYPE_RSA", <<ScalarChoices[2], ScalarChoices[1]>>),
      PubKey("SSH_KEYTYPE_RSA1", <<ScalarChoices[2], ScalarChoices[1]>>),
      PubKey("SSH_KEYTYPE_DSS", <<ScalarChoices[1], ScalarChoices[2],
                                  ScalarChoices[3], ScalarChoices[2]>>) }

Retag(name, k) == WireString(Chars(name)) \o WireFields(k.nums)

BlobInputs ==
    { pki_publickey_to_blob(k).data : k \in ValidPubKeys }
    \cup UNION { Truncations(pki_publickey_to_blob(k).data) : k \in SampleKeys }
    \cup { Retag(t, k) : t \in TagNames,
                          k \in { j \in SampleKeys : j.type # "SSH_KEYTYPE_RSA1" } }

\* What the text of a base64 key decodes to (base64_to_bin), per input.
Base64Inputs ==
    { pki_publickey_to_blob(k).data : k \in SampleKeys }
    \cup { Retag(t, k) : t \in {"rsa", "dsa", "ecdsa"}, k \in SampleKeys }

(***************************************************************************)
(* Init: nothing allocated, no call made.                                  *)
(***************************************************************************)
Init ==
    /\ keys = [k \in KeyIds |-> NoKey]
    /\ handles = [h \in HandleIds |-> NoHandle]
    /\ legacy = {}
    /\ refs = {}
    /\ last = NoLast
    /\ fault = "none"

Commit(H, l) ==
    /\ keys' = H.keys
    /\ handles' = H.handles
    /\ fault' = H.fault
    /\ last' = l

\* The key pointers a caller can pass.
KeyArgs == refs \cup {NULL}

\* Reading a field of *key when key points to freed memory.
Dangling(H, key) == key # NULL /\ H.keys[key].mem # "live"

\* One more release call has been made on key (capped).
CountRelease(H, key) ==
    IF key = NULL THEN H
    ELSE [H EXCEPT !.keys[key].releases = IF @ < 2 THEN @ + 1 ELSE @]

(***************************************************************************)
(* ssh_key_new called by the application, pki.c:84-91.                     *)
(***************************************************************************)
KeyNew ==
    /\ fault = "none"
    /\ FreshKey(Heap) # NULL
    /\ \E malloc_ok \in BOOLEAN :
         LET key == IF malloc_ok THEN FreshKey(Heap) ELSE NULL
         IN  IF key = NULL
             THEN /\ Commit(Heap, [NoLast EXCEPT !.op = "ssh_key_new"])
                  /\ UNCHANGED <<legacy, refs>>
             ELSE /\ Commit(ssh_key_new(Heap, key),
                            [NoLast EXCEPT !.op = "ssh_key_new", !.out = key,
                                           !.alloc = TRUE])
                  /\ refs' = refs \cup {key}
                  /\ UNCHANGED legacy

(***************************************************************************)
(* ssh_key_clean and ssh_key_free called by the application.               *)
(***************************************************************************)
KeyClean ==
    /\ fault = "none"
    /\ \E key \in KeyArgs :
         /\ Commit(CountRelease(ssh_key_clean(Heap, key), key),
                   [NoLast EXCEPT !.op = "ssh_key_clean", !.key = key,
                                  !.live = (key # NULL /\ ~Dangling(Heap, key))])
         /\ UNCHANGED <<legacy, refs>>

KeyFree ==
    /\ fault = "none"
    /\ \E key \in KeyArgs :
         /\ Commit(CountRelease(ssh_key_free(Heap, key, "ssh_key_free"), key),
                   [NoLast EXCEPT !.op = "ssh_key_free", !.key = key,
                                  !.live = (key # NULL /\ ~Dangling(Heap, key))])
         /\ UNCHANGED <<legacy, refs>>

(***************************************************************************)
(* pki_import_pubkey_buffer, pki.c:393-511.  `base` is the call record the *)
(* public entry point has filled in so far.                                *)
(***************************************************************************)
SetMaterial(H, key, kind, nums) ==
    LET h == FreshHandle(H)
    IN  [H EXCEPT !.handles[h] = [st |-> "live", kind |-> kind, nums |-> nums,
                                  frees |-> 0],
                  !.keys[key].dsa = IF kind = "dsa" THEN h ELSE @,
                  !.keys[key].rsa = IF kind = "rsa" THEN h ELSE @]

\* pki.c:404-406
InitImportedKey_private(H, key, type) ==
    [H EXCEPT !.keys[key].type = type,
              !.keys[key].type_c = ssh_key_type_to_char(type),
              !.keys[key].flags = SSH_KEY_FLAG_PUBLIC \cup SSH_KEY_FLAG_PRIVATE]

InitImportedKey(H, key, type) ==
    [H EXCEPT !.keys[key].type = type,
              !.keys[key].type_c = ssh_key_type_to_char(type),
              !.keys[key].flags = SSH_KEY_FLAG_PUBLIC]

pki_import_pubkey_buffer(buffer, type, base) ==
    \E malloc_ok \in BOOLEAN :
      LET key == IF malloc_ok THEN FreshKey(Heap) ELSE NULL
      IN  IF key = NULL
          THEN /\ Commit(Heap, [base EXCEPT !.rc = SSH_ERROR, !.type = type])
               /\ UNCHANGED <<legacy, refs>>
          ELSE \E r \in ImportSwitch(buffer, type) :
                 LET H1 == InitImportedKey(ssh_key_new(Heap, key), key, type)
                     l  == [base EXCEPT !.type = type, !.log = r.log, !.alloc = TRUE]
                 IN  IF r.crash
                     THEN /\ Commit([H1 EXCEPT !.fault = "segv"], l)
                          /\ UNCHANGED <<legacy, refs>>
                     ELSE IF r.rc = SSH_OK
                     THEN /\ FreshHandle(H1) # NULL
                          /\ Commit(SetMaterial(H1, key, r.kind, r.nums),
                                    [l EXCEPT !.rc = SSH_OK, !.out = key])
                          /\ refs' = refs \cup {key}
                          /\ UNCHANGED legacy
                     ELSE /\ Commit(ssh_key_free(H1, key, "pki_import_pubkey_buffer"),
                                    [l EXCEPT !.rc = SSH_ERROR])
                          /\ UNCHANGED <<legacy, refs>>

(***************************************************************************)
(* ssh_pki_import_pubkey_blob, pki.c:571-620.                              *)
(***************************************************************************)
ssh_string_to_char(s) == s.data

ssh_pki_import_pubkey_blob(inputs) ==
    /\ fault = "none"
    /\ FreshKey(Heap) # NULL
    /\ \E key_blob \in {Str(b) : b \in inputs} \cup {NULLSTR} :
         LET base == [NoLast EXCEPT !.op = "ssh_pki_import_pubkey_blob",
                                    !.input = key_blob.data]
         IN  IF ~key_blob.ok
             THEN /\ Commit(Heap, [base EXCEPT !.rc = SSH_ERROR])
                  /\ UNCHANGED <<legacy, refs>>
             ELSE LET r == buffer_get_ssh_string(Buffer(key_blob.data))
                      type_s == r.str
                  IN  IF ~type_s.ok
                      THEN /\ Commit(Heap, [base EXCEPT !.rc = SSH_ERROR])
                           /\ UNCHANGED <<legacy, refs>>
                      ELSE LET type_c == ssh_string_to_char(type_s)
                           IN  pki_import_pubkey_buffer(
                                   r.buffer, ssh_key_type_from_name(type_c),
                                   [base EXCEPT !.tag = CStr(type_c)])

ImportPubkeyBlob == ssh_pki_import_pubkey_blob(BlobInputs)

\* The same call on the blobs of the sample keys only.
ImportSamplePubkeyBlob ==
    ssh_pki_import_pubkey_blob({ pki_publickey_to_blob(k).data : k \in SampleKeys })

(***************************************************************************)
(* ssh_pki_import_pubkey_base64, pki.c:527-554.  bin is what base64_to_bin *)
(* returns for the text.                                                   *)
(***************************************************************************)
BlobTagType(type_s, type) == ssh_key_type_from_name(ssh_string_to_char(type_s))

CallerType(type_s, type) == type

\* ssh_pki_import_pubkey_base64 once base64_to_bin has returned bin (NULL for
\* a text that is not base64).
ssh_pki_import_pubkey_base64(bin, type, base) ==
    IF ~bin.ok
    THEN /\ Commit(Heap, [base EXCEPT !.rc = SSH_ERROR, !.type = type])
         /\ UNCHANGED <<legacy, refs>>
    ELSE LET r == buffer_get_ssh_string(Buffer(bin.data))
             type_s == r.str
         IN  IF ~type_s.ok
             THEN /\ Commit(Heap, [base EXCEPT !.rc = SSH_ERROR, !.type = type])
                  /\ UNCHANGED <<legacy, refs>>
             ELSE pki_import_pubkey_buffer(
                      r.buffer, CallerType(type_s, type),
                      [base EXCEPT !.tag = CStr(ssh_string_to_char(type_s)),
                                   !.hint = type])

ImportPubkeyBase64 ==
    /\ fault = "none"
    /\ FreshKey(Heap) # NULL
    /\ \E bin \in {Str(b) : b \in Base64Inputs} \cup {NULLSTR}, type \in KeyTypes :
         ssh_pki_import_pubkey_base64(
             bin, type,
             [NoLast EXCEPT !.op = "ssh_pki_import_pubkey_base64",
                            !.input = bin.data])

(***************************************************************************)
(* ssh_pki_import_pubkey_file, pki.c:622-684.  The file's bytes are read   *)
(* into a buffer of st_size + 1 bytes whose last byte is never written;    *)
(* the two scans advance to the next whitespace byte and put a NUL there.  *)
(* Memory is the bytes read, the unwritten byte, and what follows the      *)
(* allocation; a read past the mapped bytes is a crash.                    *)
(***************************************************************************)
SP == 32
NL == 10
PAD == 61

isspace(c) == c \in {9, 10, 11, 12, 13, 32}

\* The base64 alphabet: A-Z a-z 0-9 + /
B64Alphabet ==
    [i \in 1..26 |-> 64 + i] \o [i \in 1..26 |-> 96 + i]
    \o [i \in 1..10 |-> 47 + i] \o <<43, 47>>

\* The 6-bit value of a base64 character, -1 for any other byte.
B64Val(c) ==
    IF \E i \in 1..64 : B64Alphabet[i] = c
    THEN (CHOOSE i \in 1..64 : B64Alphabet[i] = c) - 1
    ELSE -1

\* The text a key file holds for a blob (RFC 4648, padded).
RECURSIVE bin_to_base64(_)
bin_to_base64(b) ==
    LET ch(v) == B64Alphabet[v + 1]
    IN  IF b = <<>> THEN <<>>
        ELSE IF Len(b) = 1
        THEN <<ch(b[1] \div 4), ch((b[1] % 4) * 16), PAD, PAD>>
        ELSE IF Len(b) = 2
        THEN <<ch(b[1] \div 4), ch((b[1] % 4) * 16 + (b[2] \div 16)),
               ch((b[2] % 16) * 4), PAD>>
        ELSE <<ch(b[1] \div 4), ch((b[1] % 4) * 16 + (b[2] \div 16)),
               ch((b[2] % 16) * 4 + (b[3] \div 64)), ch(b[3] % 64)>>
             \o bin_to_base64(SubSeq(b, 4, Len(b)))

\* base64_to_bin: the bytes of a base64 text, NULL when the text is not
\* groups of four alphabet characters with padding in the last group only.
RECURSIVE base64_to_bin(_)
base64_to_bin(t) ==
    IF t = <<>> THEN Str(<<>>)
    ELSE IF Len(t) < 4 \/ B64Val(t[1]) < 0 \/ B64Val(t[2]) < 0 THEN NULLSTR
    ELSE LET a == B64Val(t[1])
             b == B64Val(t[2])
             c == B64Val(t[3])
             d == B64Val(t[4])
             rest == SubSeq(t, 5, Len(t))
         IN  IF t[3] = PAD
             THEN IF t[4] = PAD /\ rest = <<>>
                  THEN Str(<<a * 4 + (b \div 16)>>)
                  ELSE NULLSTR
             ELSE IF c < 0 THEN NULLSTR
             ELSE IF t[4] = PAD
             THEN IF rest = <<>>
                  THEN Str(<<a * 4 + (b \div 16), (b % 16) * 16 + (c \div 4)>>)
                  ELSE NULLSTR
             ELSE IF d < 0 THEN NULLSTR
             ELSE LET r == base64_to_bin(rest)
                  IN  IF ~r.ok THEN NULLSTR
                      ELSE Str(<<a * 4 + (b \div 16), (b % 16) * 16 + (c \div 4),
                                 (c % 4) * 64 + d>> \o r.data)

\* while (!isspace((int)*p)) p++;  from index p (from 0) of mem: the index
\* it stops at, or a crash at the first index that is not mapped.
RECURSIVE ScanToSpace(_, _)
ScanToSpace(mem, p) ==
    IF p >= Len(mem) THEN [crash |-> TRUE, stop |-> p]
    ELSE IF isspace(mem[p + 1]) THEN [crash |-> FALSE, stop |-> p]
    ELSE ScanToSpace(mem, p + 1)

\* *p = '\0';
PutNul(mem, p) == [mem EXCEPT ![p + 1] = 0]

\* The C string that starts at index q of mem.
StringAt(mem, q) == CStr(SubSeq(mem, q + 1, Len(mem)))

\* Lines of a key file: name, base64 text, comment, with and without the
\* pieces and the end of line.
FileKeys == SampleKeys
FileText(k) == bin_to_base64(pki_publickey_to_blob(k).data)
FileInputs ==
    { <<>>, <<NL>>, Chars("ssh-rsa"), Chars("ssh-rsa") \o <<NL>>,
      Chars("ssh-dss") \o <<SP>> }
    \cup UNION { { Chars(ssh_key_type_to_char(k.type)) \o <<SP>> \o FileText(k),
                   Chars(ssh_key_type_to_char(k.type)) \o <<SP>> \o FileText(k) \o <<NL>>,
                   Chars(ssh_key_type_to_char(k.type)) \o <<SP>> \o FileText(k)
                       \o <<SP, 99, NL>>,
                   Chars("ssh") \o <<SP>> \o FileText(k) \o <<NL>> } : k \in FileKeys }

\* What the unwritten last byte of the buffer can hold, and the mapped bytes
\* that can follow the allocation.
SlackBytes == {0, SP, 65}
AfterBuffer == { <<>>, <<SP>>, <<65>>, <<65, NL>>, <<NL, NL>>, <<65, 65>> }

\* pki.c:666-682 on the memory image mem, size bytes of it read from the file.
TokenizeAndImport(mem, size, base) ==
    LET s1 == ScanToSpace(mem, 0)
        b1 == [base EXCEPT !.size = size, !.touched = 0..s1.stop]
    IN  IF s1.crash
        THEN /\ Commit([Heap EXCEPT !.fault = "segv"], b1)
             /\ UNCHANGED <<legacy, refs>>
        ELSE
    LET mem1 == PutNul(mem, s1.stop)
        type == ssh_key_type_from_name(StringAt(mem1, 0))
    IN  IF type = "SSH_KEYTYPE_UNKNOWN"
        THEN /\ Commit(Heap, [b1 EXCEPT !.rc = SSH_ERROR, !.type = type])
             /\ UNCHANGED <<legacy, refs>>
        ELSE
    LET q  == s1.stop + 1
        s2 == ScanToSpace(mem1, q)
        b2 == [b1 EXCEPT !.touched = 0..s2.stop]
    IN  IF s2.crash
        THEN /\ Commit([Heap EXCEPT !.fault = "segv"], b2)
             /\ UNCHANGED <<legacy, refs>>
        ELSE ssh_pki_import_pubkey_base64(
                 base64_to_bin(StringAt(PutNul(mem1, s2.stop), q)), type, b2)

ImportPubkeyFile ==
    /\ fault = "none"
    /\ FreshKey(Heap) # NULL
    /\ \E content \in FileInputs :
         LET base == [NoLast EXCEPT !.op = "ssh_pki_import_pubkey_file",
                                    !.input = content]
         IN  \/ \E args_ok \in BOOLEAN,
                   io \in {"ok", "stat", "fopen", "malloc", "fread"} :
                  /\ ~args_ok \/ io # "ok"
                  /\ Commit(Heap, [base EXCEPT !.rc = SSH_ERROR])
                  /\ UNCHANGED <<legacy, refs>>
             \/ \E slack \in SlackBytes, after \in AfterBuffer :
                  TokenizeAndImport(content \o <<slack>> \o after, Len(content), base)

(***************************************************************************)
(* ssh_pki_import_privkey_base64, pki.c:250-277.  The container codec      *)
(* pki_private_key_from_base64 returns NULL or a new key holding both      *)
(* halves.                                                                 *)
(***************************************************************************)
PrivKeyInputs == { k \in SampleKeys : k.type \in {"SSH_KEYTYPE_DSS", "SSH_KEYTYPE_RSA"} }

pki_private_key_from_base64(H, key, k) ==
    LET H1 == [ssh_key_new(H, key) EXCEPT
                   !.keys[key].type = k.type,
                   !.keys[key].type_c = ssh_key_type_to_char(k.type),
                   !.keys[key].flags = SSH_KEY_FLAG_PUBLIC \cup SSH_KEY_FLAG_PRIVATE]
    IN  SetMaterial(H1, key, IF k.type = "SSH_KEYTYPE_DSS" THEN "dsa" ELSE "rsa", k.nums)

ImportPrivkeyBase64 ==
    /\ fault = "none"
    /\ FreshKey(Heap) # NULL
    /\ \E b64_key \in {"NULL", "", "pem"}, k \in PrivKeyInputs, parse_ok \in BOOLEAN :
         LET base == [NoLast EXCEPT !.op = "ssh_pki_import_privkey_base64"]
             key  == IF parse_ok /\ FreshHandle(Heap) # NULL THEN FreshKey(Heap) ELSE NULL
         IN  IF b64_key \in {"NULL", ""} \/ key = NULL
             THEN /\ Commit(Heap, [base EXCEPT !.rc = SSH_ERROR])
                  /\ UNCHANGED <<legacy, refs>>
             ELSE /\ Commit(pki_private_key_from_base64(Heap, key, k),
                            [base EXCEPT !.rc = SSH_OK, !.out = key, !.alloc = TRUE])
                  /\ refs' = refs \cup {key}
                  /\ UNCHANGED legacy

(***************************************************************************)
(* ssh_pki_export_pubkey_blob, pki.c:713-720.                              *)
(***************************************************************************)
Material(H, key) ==
    LET K == H.keys[key]
        h == IF K.type = "SSH_KEYTYPE_DSS" THEN K.dsa ELSE K.rsa
    IN  IF h = NULL THEN <<>> ELSE H.handles[h].nums

KeyView(H, key) ==
    [type |-> H.keys[key].type, type_c |-> H.keys[key].type_c,
     nums |-> Material(H, key)]

ExportPubkeyBlob ==
    /\ fault = "none"
    /\ \E key \in KeyArgs :
         LET base == [NoLast EXCEPT !.op = "ssh_pki_export_pubkey_blob", !.key = key]
         IN  /\ IF key = NULL
                THEN Commit(Heap, base)
                ELSE IF Dangling(Heap, key)
                THEN Commit([Heap EXCEPT !.fault = "use_after_free"], base)
                ELSE Commit(Heap, [base EXCEPT
                                     !.output = pki_publickey_to_blob(KeyView(Heap, key))])
             /\ UNCHANGED <<legacy, refs>>

(***************************************************************************)
(* ssh_pki_convert_key_to_publickey, pki.c:356-375.                        *)
(***************************************************************************)
LegacyRoom == Cardinality(legacy) < MaxLegacy

ConvertKeyToPublickey ==
    /\ fault = "none"
    /\ \E key \in KeyArgs, malloc_ok \in BOOLEAN :
         LET base == [NoLast EXCEPT !.op = "ssh_pki_convert_key_to_publickey",
                                    !.key = key]
         IN  IF key = NULL \/ ~(malloc_ok /\ LegacyRoom)
             THEN /\ Commit(Heap, [base EXCEPT !.rc = "NULL"])
                  /\ UNCHANGED <<legacy, refs>>
             ELSE IF Dangling(Heap, key)
             THEN /\ Commit([Heap EXCEPT !.fault = "use_after_free"], base)
                  /\ UNCHANGED <<legacy, refs>>
             ELSE /\ Commit(Heap, [base EXCEPT !.rc = "record"])
                  /\ legacy' = legacy \cup
                        { [kind |-> "ssh_public_key", of |-> key,
                           dsa |-> keys[key].dsa, rsa |-> keys[key].rsa,
                           type |-> keys[key].type, type_c |-> keys[key].type_c] }
                  /\ UNCHANGED refs

(***************************************************************************)
(* ssh_pki_convert_key_to_privatekey, pki.c:377-391.  No NULL test on key; *)
(* on allocation failure the caller's key is freed.                        *)
(***************************************************************************)
ConvertKeyToPrivatekey ==
    /\ fault = "none"
    /\ \E key \in KeyArgs, malloc_ok \in BOOLEAN :
         LET base == [NoLast EXCEPT !.op = "ssh_pki_convert_key_to_privatekey",
                                    !.key = key]
         IN  IF ~(malloc_ok /\ LegacyRoom)
             THEN /\ Commit(ssh_key_free(Heap, key, "ssh_pki_convert_key_to_privatekey"),
                            [base EXCEPT !.rc = "NULL"])
                  /\ UNCHANGED <<legacy, refs>>
             ELSE IF key = NULL
             THEN /\ Commit([Heap EXCEPT !.fault = "segv"], base)
                  /\ UNCHANGED <<legacy, refs>>
             ELSE IF Dangling(Heap, key)
             THEN /\ Commit([Heap EXCEPT !.fault = "use_after_free"], base)
                  /\ UNCHANGED <<legacy, refs>>
             ELSE /\ Commit(Heap, [base EXCEPT !.rc = "record"])
                  /\ legacy' = legacy \cup
                        { [kind |-> "ssh_private_key", of |-> key,
                           dsa |-> keys[key].dsa, rsa |-> keys[key].rsa,
                           type |-> keys[key].type, type_c |-> "NULL"] }
                  /\ UNCHANGED refs

(***************************************************************************)
(* ssh_pki_do_sign, pki.c:820-865.                                         *)
(***************************************************************************)
SHA_DIGEST_LEN == 20

SessionIds == { [i \in 1..SHA_DIGEST_LEN |-> 7], [i \in 1..SHA_DIGEST_LEN |-> i],
                [i \in 1..(SHA_DIGEST_LEN + 2) |-> 30 + i] }
SigBufs == { [data |-> <<>>, pos |-> 0], [data |-> <<9, 8, 7>>, pos |-> 0],
             [data |-> <<9, 8, 7>>, pos |-> 1] }

\* An ssh_string in memory: its length as 4 big-endian bytes, then its bytes.
ssh_string_new(size) == U32(size) \o [i \in 1..size |-> 0]
ssh_string_len(s) == FromU32(SubSeq(s, 1, 4))
ssh_string_fill(s, data, len) ==
    [i \in DOMAIN s |-> IF 4 < i /\ i <= 4 + len THEN data[i - 4] ELSE s[i]]

\* sha1_update(ctx, data, len): len more bytes are hashed.
sha1_update(ctx, data, len) == ctx \o SubSeq(data, 1, len)

\* sha1_final(hash + 1, ctx); hash[0] = 0;
sha1_final(ctx) == [hash0 |-> 0, alg |-> "sha1", of |-> ctx]

\* The bytes of session_str that are hashed: the length given at pki.c:846
\* without the 4 of the prefix.
SessionStrHashed_no_prefix(session_str) == ssh_string_len(session_str)

\* ssh_string_len(session_str) + 4
SessionStrHashed(session_str) == ssh_string_len(session_str) + 4

\* The events of pki.c:834-864 and the bytes given to sha1_update, by outcome
\* of ssh_string_new, sha1_init and pki_do_sign.
SignBody(session_id, sigbuf, str_ok, ctx_ok, sign_ok) ==
    LET l1 == <<Ev("ssh_string_new", "session_str", str_ok)>>
    IN  IF ~str_ok THEN [rc |-> "NULL", log |-> l1, hashed |-> <<>>, signed |-> NoHash]
        ELSE
    LET session_str == ssh_string_fill(ssh_string_new(SHA_DIGEST_LEN),
                                       session_id, SHA_DIGEST_LEN)
        l2 == l1 \o <<Ev("ssh_string_fill", "session_str", TRUE),
                      Ev("sha1_init", "ctx", ctx_ok)>>
    IN  IF ~ctx_ok
        THEN [rc |-> "NULL", log |-> Append(l2, Ev("free", "session_str", TRUE)),
              hashed |-> <<>>, signed |-> NoHash]
        ELSE
    LET h1 == sha1_update(<<>>, session_str, SessionStrHashed(session_str))
        h2 == sha1_update(h1, buffer_get_rest(sigbuf), buffer_get_rest_len(sigbuf))
        hash == sha1_final(h2)
        l3 == l2 \o <<Ev("sha1_update", "session_str", TRUE),
                      Ev("free", "session_str", TRUE),
                      Ev("sha1_update", "sigbuf", TRUE),
                      Ev("sha1_final", "ctx", TRUE),
                      Ev("pki_do_sign", "hash", sign_ok)>>
    IN  IF ~sign_ok
        THEN [rc |-> "NULL", log |-> l3, hashed |-> h2, signed |-> hash]
        ELSE [rc |-> "signature",
              log |-> l3 \o <<Ev("signature_to_string", "sign", TRUE),
                              Ev("signature_free", "sign", TRUE)>>,
              hashed |-> h2, signed |-> hash]

DoSign ==
    /\ fault = "none"
    /\ \E key \in KeyArgs, session_id \in SessionIds, sigbuf \in SigBufs,
          str_ok \in BOOLEAN, ctx_ok \in BOOLEAN, sign_ok \in BOOLEAN :
         LET base == [NoLast EXCEPT !.op = "ssh_pki_do_sign", !.key = key,
                                    !.input = session_id \o buffer_get_rest(sigbuf),
                                    !.session_id = session_id,
                                    !.sigbuf_in = sigbuf, !.sigbuf = sigbuf]
         IN  /\ IF Dangling(Heap, key)
                THEN Commit([Heap EXCEPT !.fault = "use_after_free"], base)
                ELSE IF key = NULL \/ ~ssh_key_is_private(Heap, key)
                THEN Commit(Heap, [base EXCEPT !.rc = "NULL"])
                ELSE LET r == SignBody(session_id, sigbuf, str_ok, ctx_ok, sign_ok)
                     IN  Commit(Heap, [base EXCEPT !.rc = r.rc, !.log = r.log,
                                                   !.hashed = r.hashed,
                                                   !.signed = r.signed])
             /\ UNCHANGED <<legacy, refs>>

(***************************************************************************)
(* The program: any call the application can make, in any order.           *)
(***************************************************************************)
Next ==
    \/ KeyNew
    \/ KeyClean
    \/ KeyFree
    \/ ImportPubkeyBlob
    \/ ImportPubkeyBase64
    \/ ImportPubkeyFile
    \/ ImportPrivkeyBase64
    \/ ExportPubkeyBlob
    \/ ConvertKeyToPublickey
    \/ ConvertKeyToPrivatekey
    \/ DoSign

Spec == Init /\ [][Next]_vars

(***************************************************************************)
(* The blob codec on its own: decode from every input, encode.             *)
(***************************************************************************)
NextCodec ==
    \/ ImportPubkeyBlob
    \/ ImportPubkeyBase64
    \/ ExportPubkeyBlob

SpecCodec == Init /\ [][NextCodec]_vars

(***************************************************************************)
(* The key store: creation, decode of the sample keys, conversion to the   *)
(* legacy records, release.                                                *)
(***************************************************************************)
NextStore ==
    \/ KeyNew
    \/ ImportPrivkeyBase64
    \/ ImportSamplePubkeyBlob
    \/ KeyClean
    \/ KeyFree
    \/ ConvertKeyToPublickey
    \/ ConvertKeyToPrivatekey

SpecStore == Init /\ [][NextStore]_vars

(***************************************************************************)
(* Signing: keys of every kind are made, released and signed with.         *)
(***************************************************************************)
NextSign ==
    \/ KeyNew
    \/ ImportPrivkeyBase64
    \/ ImportSamplePubkeyBlob
    \/ KeyClean
    \/ DoSign

SpecSign == Init /\ [][NextSign]_vars

(***************************************************************************)
(* Key files: a key is read from a file, encoded again, released.          *)
(***************************************************************************)
NextFile ==
    \/ ImportPubkeyFile
    \/ ExportPubkeyBlob
    \/ KeyClean
    \/ KeyFree

SpecFile == Init /\ [][NextFile]_vars

(***************************************************************************)
(* Vocabulary of the properties.                                           *)
(***************************************************************************)
ImportOps == {"ssh_pki_import_pubkey_blob", "ssh_pki_import_pubkey_base64"}

LogHas(e, f) == \E i \in DOMAIN last.log : last.log[i].ev = e /\ last.log[i].f = f
LogHasEv(e) == \E i \in DOMAIN last.log : last.log[i].ev = e

\* Some field of the key was looked for and was not there.
FieldMissing == \E i \in DOMAIN last.log : last.log[i].ev = "get" /\ ~last.log[i].ok

\* Some field of the key was read into a string of its own.
FieldRead == \E i \in DOMAIN last.log : last.log[i].ev = "get" /\ last.log[i].ok

\* The construction primitive was called with a NULL argument.
BuiltWithMissing == \E i \in DOMAIN last.log : last.log[i].ev = "build" /\ ~last.log[i].ok

SupportedTypes == {"SSH_KEYTYPE_RSA", "SSH_KEYTYPE_RSA1", "SSH_KEYTYPE_DSS"}

CanonicalName(type) ==
    CASE type = "SSH_KEYTYPE_RSA"  -> "ssh-rsa"
      [] type = "SSH_KEYTYPE_RSA1" -> "ssh-rsa1"
      [] type = "SSH_KEYTYPE_DSS"  -> "ssh-dss"
      [] OTHER -> "NULL"

EmptyKey(K) ==
    /\ K.flags = {}
    /\ K.type = "SSH_KEYTYPE_UNKNOWN"
    /\ K.type_c = "NULL"
    /\ K.dsa = NULL
    /\ K.rsa = NULL

(***************************************************************************)
(* C1.  Blob decode of a buffer in which a required field is missing or    *)
(* truncated ends with an error, never calls the construction primitive    *)
(* with a missing field, and stores no key in the output.                  *)
(***************************************************************************)
C1_MissingFieldIsAnError ==
    (last.op \in ImportOps /\ FieldMissing) =>
        /\ last.rc = SSH_ERROR
        /\ ~BuiltWithMissing
        /\ last.out = NULL
        /\ fault = "none"

(***************************************************************************)
(* C2.  Round trip: decoding the blob that encodes a valid public key      *)
(* reads every field and hands them all to the construction primitive;     *)
(* when that succeeds the new key has the algorithm, the scalars and the   *)
(* display name of the key that was encoded.                               *)
(***************************************************************************)
C2_RoundTrip ==
    \A k \in ValidPubKeys :
        ( /\ last.op = "ssh_pki_import_pubkey_blob"
          /\ last.alloc
          /\ last.input = pki_publickey_to_blob(k).data ) =>
            /\ fault = "none"
            /\ ~FieldMissing
            /\ LogHasEv("build")
            /\ last.type = k.type
            /\ last.rc = SSH_OK =>
                 /\ last.out # NULL
                 /\ keys[last.out].mem = "live"
                 /\ KeyView(Heap, last.out) = k

C2_RoundTripDone ==
    /\ last.op = "ssh_pki_import_pubkey_blob"
    /\ last.rc = SSH_OK
    /\ \E k \in ValidPubKeys :
         /\ k.type = "SSH_KEYTYPE_RSA1"
         /\ k.nums[1] # k.nums[2]
         /\ last.input = pki_publickey_to_blob(k).data
         /\ KeyView(Heap, last.out) = k

(***************************************************************************)
(* C3.  When blob decode returns an error after reading at least one       *)
(* field, every field string it read has been burned and then freed; and   *)
(* no decode frees a field string it has not burned first.                 *)
(***************************************************************************)
BurnedThenFreed(f) ==
    \E b \in DOMAIN last.log, r \in DOMAIN last.log :
        /\ b < r
        /\ last.log[b].ev = "burn" /\ last.log[b].f = f
        /\ last.log[r].ev = "free" /\ last.log[r].f = f

C3_BurnBeforeFree ==
    last.op \in ImportOps =>
        /\ (last.rc = SSH_ERROR) =>
              \A i \in DOMAIN last.log :
                  (last.log[i].ev = "get" /\ last.log[i].ok) => BurnedThenFreed(last.log[i].f)
        /\ \A r \in DOMAIN last.log :
              last.log[r].ev = "free" =>
                  \E b \in 1..(r - 1) :
                      last.log[b].ev = "burn" /\ last.log[b].f = last.log[r].f

C3_FailedAfterRead ==
    /\ last.op \in ImportOps
    /\ last.rc = SSH_ERROR
    /\ FieldRead
    /\ FieldMissing
    /\ LogHas("free", "q")

(***************************************************************************)
(* C4.  Every backend handle is owned by exactly one key and by nothing    *)
(* else, its destructor runs at most once and only when that key is        *)
(* released, and a key the caller holds is destroyed by ssh_key_free only. *)
(***************************************************************************)
Owners(h) ==
    Cardinality({ k \in KeyIds : keys[k].dsa = h \/ keys[k].rsa = h })
    + Cardinality({ r \in legacy : r.dsa = h \/ r.rsa = h })

C4_ExclusiveOwnership ==
    /\ \A h \in HandleIds :
         /\ handles[h].st = "live" => Owners(h) = 1
         /\ handles[h].frees <= 1
    /\ \A k \in refs :
         keys[k].mem = "freed" => keys[k].freedBy = "ssh_key_free"

(***************************************************************************)
(* C5 as the spec has it.  A release call, ssh_key_clean or ssh_key_free,  *)
(* never faults, whatever was released before, and leaves the key empty.   *)
(***************************************************************************)
C5_AnyReleaseIsIdempotent ==
    last.op \in {"ssh_key_clean", "ssh_key_free"} =>
        /\ fault = "none"
        /\ \A h \in HandleIds : handles[h].frees <= 1
        /\ last.key # NULL => EmptyKey(keys[last.key])

(***************************************************************************)
(* C5 as the code has it.  ssh_key_clean on a key that has not been freed, *)
(* for the first time or again, and either release call on NULL, never     *)
(* faults, destroys no handle twice and leaves the key empty; ssh_key_free *)
(* on a key that has not been freed does the same and frees it; a release  *)
(* call on a key already freed reads freed memory.                         *)
(***************************************************************************)
C5_CleanIsIdempotent ==
    /\ (last.op \in {"ssh_key_clean", "ssh_key_free"} /\ last.key = NULL) =>
          fault = "none"
    /\ (last.op = "ssh_key_clean" /\ last.live) =>
          /\ fault = "none"
          /\ \A h \in HandleIds : handles[h].frees <= 1
          /\ EmptyKey(keys[last.key])
          /\ keys[last.key].mem = "live"
    /\ (last.op = "ssh_key_free" /\ last.live) =>
          /\ fault = "none"
          /\ \A h \in HandleIds : handles[h].frees <= 1
          /\ EmptyKey(keys[last.key])
          /\ keys[last.key].mem = "freed"
          /\ keys[last.key].freedBy = "ssh_key_free"
    /\ (last.op \in {"ssh_key_clean", "ssh_key_free"} /\ last.key # NULL /\ ~last.live) =>
          fault = "use_after_free"

C5_CleanedTwice ==
    /\ last.op = "ssh_key_clean"
    /\ last.key # NULL
    /\ keys[last.key].releases = 2
    /\ keys[last.key].mem = "live"
    /\ \E h \in HandleIds : handles[h].st = "destroyed"

(***************************************************************************)
(* C6.  ssh_pki_do_sign with a NULL key or a key without the private flag  *)
(* returns NULL and has then called nothing: no transcript string, no hash *)
(* primitive, no sign primitive.                                           *)
(***************************************************************************)
C6_SignNeedsPrivateKey ==
    ( /\ last.op = "ssh_pki_do_sign"
      /\ fault = "none"
      /\ (last.key = NULL \/ "PRIVATE" \notin keys[last.key].flags) ) =>
        /\ last.rc = "NULL"
        /\ last.log = <<>>
        /\ last.hashed = <<>>
        /\ last.signed = NoHash

C6_SignedWithPublicKey ==
    /\ last.op = "ssh_pki_do_sign"
    /\ last.key # NULL
    /\ keys[last.key].mem = "live"
    /\ keys[last.key].flags = {"PUBLIC"}
    /\ last.rc = "NULL"

(***************************************************************************)
(* C7.  In ssh_pki_do_sign the transcript string is burned after it has    *)
(* been given to the hash and before it is freed, on every path that       *)
(* frees it.                                                               *)
(***************************************************************************)
C7_TranscriptBurnedBeforeFree ==
    last.op = "ssh_pki_do_sign" =>
        \A r \in DOMAIN last.log :
            (last.log[r].ev = "free" /\ last.log[r].f = "session_str") =>
                \E b \in 1..(r - 1) :
                    last.log[b].ev = "burn" /\ last.log[b].f = "session_str"

(***************************************************************************)
(* C8.  The tag of a blob maps to its algorithm: the six aliases to RSA,   *)
(* DSA and RSA1, the ECDSA family to an outcome that is not the one of an  *)
(* unknown name, and every other name to Unknown.                          *)
(***************************************************************************)
TagIs(names) == \E n \in names : last.tag = Chars(n)

C8_TagMapping ==
    (last.op = "ssh_pki_import_pubkey_blob" /\ last.type # "none") =>
        /\ TagIs({"rsa", "ssh-rsa"}) => last.type = "SSH_KEYTYPE_RSA"
        /\ TagIs({"dsa", "ssh-dss"}) => last.type = "SSH_KEYTYPE_DSS"
        /\ TagIs({"rsa1", "ssh-rsa1"}) => last.type = "SSH_KEYTYPE_RSA1"
        /\ TagIs(EcdsaNames) => last.type # "SSH_KEYTYPE_UNKNOWN"
        /\ ~TagIs(AliasNames \cup EcdsaNames) => last.type = "SSH_KEYTYPE_UNKNOWN"

(***************************************************************************)
(* C9 as the spec has it.  In ssh_pki_import_pubkey_base64 the fields are  *)
(* read, and the key is typed, by the tag inside the blob, whatever type   *)
(* the caller passes.                                                      *)
(***************************************************************************)
C9_BlobTagDecides ==
    ( /\ last.op = "ssh_pki_import_pubkey_base64"
      /\ last.hint # "none"
      /\ ssh_key_type_from_name(last.tag) \in SupportedTypes ) =>
        /\ last.type = ssh_key_type_from_name(last.tag)
        /\ last.rc = SSH_OK => keys[last.out].type = ssh_key_type_from_name(last.tag)

(***************************************************************************)
(* C9 as the code has it.  In ssh_pki_import_pubkey_base64 the type the    *)
(* caller passes decides: the tag inside the blob is read and dropped, the *)
(* fields read are those of the caller's type, and a key that results has  *)
(* the caller's type and its canonical name.                               *)
(***************************************************************************)
FieldsOf(type) ==
    CASE type = "SSH_KEYTYPE_DSS" -> {"p", "q", "g", "pubkey"}
      [] type \in {"SSH_KEYTYPE_RSA", "SSH_KEYTYPE_RSA1"} -> {"e", "n"}
      [] OTHER -> {}

C9_CallerTypeDecides ==
    (last.op = "ssh_pki_import_pubkey_base64" /\ last.hint # "none") =>
        /\ last.type = last.hint
        /\ \A i \in DOMAIN last.log :
              last.log[i].ev = "get" => last.log[i].f \in FieldsOf(last.hint)
        /\ last.rc = SSH_OK =>
              /\ keys[last.out].type = last.hint
              /\ keys[last.out].type_c = CanonicalName(last.hint)

C9_TypeAgainstTag ==
    /\ last.op = "ssh_pki_import_pubkey_base64"
    /\ last.rc = SSH_OK
    /\ last.tag = Chars("ssh-dss")
    /\ last.hint = "SSH_KEYTYPE_RSA"
    /\ keys[last.out].type = "SSH_KEYTYPE_RSA"

(***************************************************************************)
(* C10.  A key returned by a successful blob decode has the public flag    *)
(* and no other, an algorithm among RSA, RSA1 and DSA, and the canonical   *)
(* name of that algorithm, also when the tag on the wire was an alias.     *)
(***************************************************************************)
C10_DecodedKeyIsPublicAndCanonical ==
    (last.op \in ImportOps /\ last.rc = SSH_OK) =>
        /\ last.out # NULL
        /\ keys[last.out].mem = "live"
        /\ keys[last.out].flags = {"PUBLIC"}
        /\ keys[last.out].type \in SupportedTypes
        /\ keys[last.out].type_c = CanonicalName(keys[last.out].type)
        /\ (last.op = "ssh_pki_import_pubkey_blob" /\ TagIs({"rsa", "ssh-rsa"}))
              => keys[last.out].type_c = "ssh-rsa"
        /\ (last.op = "ssh_pki_import_pubkey_blob" /\ TagIs({"dsa", "ssh-dss"}))
              => keys[last.out].type_c = "ssh-dss"
        /\ (last.op = "ssh_pki_import_pubkey_blob" /\ TagIs({"rsa1", "ssh-rsa1"}))
              => keys[last.out].type_c = "ssh-rsa1"

C10_DecodedFromAlias ==
    /\ last.op = "ssh_pki_import_pubkey_blob"
    /\ last.rc = SSH_OK
    /\ last.tag = Chars("dsa")
    /\ keys[last.out].type_c = "ssh-dss"

(***************************************************************************)
(* C11.  Line decode in ssh_pki_import_pubkey_file: a line with an         *)
(* algorithm name and a base64 text and no comment is accepted, a line     *)
(* with fewer than two tokens (the empty one too) ends with an error, and  *)
(* the two scans read and write only indices of bytes read from the file.  *)
(***************************************************************************)
NumTokens(t) ==
    Cardinality({ i \in DOMAIN t :
                    ~isspace(t[i]) /\ (i = 1 \/ isspace(t[i - 1])) })

LineOf(k) == Chars(ssh_key_type_to_char(k.type)) \o <<SP>> \o FileText(k)

Tokenized == last.op = "ssh_pki_import_pubkey_file" /\ last.touched # {}

C11_LineDecode ==
    Tokenized =>
        /\ last.touched \subseteq 0..(last.size - 1)
        /\ NumTokens(last.input) < 2 => (last.rc = SSH_ERROR /\ fault = "none")
        /\ \A k \in FileKeys :
              last.input \in {LineOf(k), LineOf(k) \o <<NL>>} =>
                  /\ fault = "none"
                  /\ last.tag = Chars(ssh_key_type_to_char(k.type))
                  /\ last.alloc => LogHasEv("build")
                  /\ last.rc = SSH_OK => KeyView(Heap, last.out) = k

(***************************************************************************)
(* C12.  In ssh_pki_do_sign the bytes hashed are the 4-byte length prefix  *)
(* of value 20, the 20 bytes of the session id, then the unread rest of    *)
(* the message buffer, and nothing else; the sign primitive is given the   *)
(* digest of exactly those bytes; the message buffer keeps its contents    *)
(* and its read position.                                                  *)
(***************************************************************************)
Hashed == last.op = "ssh_pki_do_sign" /\ LogHasEv("sha1_final")

C12_TranscriptIsFramedSessionIdThenMessage ==
    Hashed =>
        /\ last.hashed = <<0, 0, 0, SHA_DIGEST_LEN>>
                          \o SubSeq(last.session_id, 1, SHA_DIGEST_LEN)
                          \o SubSeq(last.sigbuf_in.data, last.sigbuf_in.pos + 1,
                                    Len(last.sigbuf_in.data))
        /\ Len(last.hashed) = 4 + SHA_DIGEST_LEN
                              + Len(last.sigbuf_in.data) - last.sigbuf_in.pos
        /\ LogHasEv("pki_do_sign")
        /\ last.signed.alg = "sha1"
        /\ last.signed.of = last.hashed
        /\ last.sigbuf = last.sigbuf_in

C12_SignedPartlyReadBuffer ==
    /\ Hashed
    /\ last.rc = "signature"
    /\ last.sigbuf_in.pos > 0
    /\ last.sigbuf_in.pos < Len(last.sigbuf_in.data)
    /\ Len(last.session_id) > SHA_DIGEST_LEN

====
